---- MODULE Spec2Model ----
(***************************************************************************)
(* AuditTrail multi-model audit service (src/app.py).                      *)
(*                                                                         *)
(* One POST /audit request is modelled: the handler audit_question, the    *)
(* coordinator multi_model_audit with its asyncio.gather join, the three   *)
(* provider adapters call_openai / call_claude / call_gemini with their    *)
(* two remote calls each, the consensus computation and the logical        *)
(* content of the report built by format_multi_model_report.               *)
(*                                                                         *)
(* Texts are sequences of symbols.  A question is a sequence of the        *)
(* characters " " and "a".  An audit reply is a sequence of tokens:        *)
(*   "{" "}"  braces, "c" the pair "confidence_percentage": <conf>,        *)
(*   "m" the pair "what_might_be_wrong": <critique>, "k" any other         *)
(*   key/value pair, "n" a bare JSON number, "w" prose.                    *)
(* average_confidence is kept in tenths (667 stands for 66.7).             *)
(***************************************************************************)
EXTENDS Integers, Sequences, FiniteSets, TLC

VARIABLES
    config,     \* providers with a client/key: openai_client, anthropic_client, GOOGLE_API_KEY
    question,   \* request body of POST /audit
    hpc,        \* position of audit_question: "start", "gather" (suspended in asyncio.gather), "done"
    tasks,      \* the list `tasks` of multi_model_audit (adapter coroutines, in creation order)
    apc,        \* position of each adapter coroutine
    answer,     \* local `answer` of each adapter
    results,    \* value returned by each adapter coroutine
    joined,     \* local `results` of multi_model_audit: what asyncio.gather returned
    data,       \* multi_model_data in audit_question
    response,   \* what audit_question returned
    calls       \* remote calls issued so far, in order

vars == <<config, question, hpc, tasks, apc, answer, results, joined, data, response, calls>>

-----------------------------------------------------------------------------
(* Bounds *)

MaxPad == 1             \* leading / trailing blanks of a question
MaxBody == 5            \* characters of a question between the blanks
ConfLevels == 3         \* confidence values a provider may report in Spec
CoarseLevels == 20      \* confidence values of Claude and Gemini in SpecConsensus

(* Program constants *)

MinQuestionLen == 5
FallbackConfidence == 50
MaxConfidence == 100
HighSpread == 20
ModerateSpread == 40
MajorSpread == 30
HighAverage == 80
ModerateAverage == 50
CautionAverage == 70

Providers == <<"GPT-4", "Claude", "Gemini">>
ProviderSet == {"GPT-4", "Claude", "Gemini"}

-----------------------------------------------------------------------------
(* Inputs *)

Blanks(n) == [i \in 1..n |-> " "]
Body(n) == [i \in 1..n |-> IF i = 2 /\ n >= 3 THEN " " ELSE "a"]
Questions == {Blanks(l) \o Body(n) \o Blanks(r) : l \in 0..MaxPad, r \in 0..MaxPad, n \in 0..MaxBody}

Levels(k) == {(i * MaxConfidence) \div k : i \in 0..k}
Confidences == Levels(ConfLevels)

AnswerTexts == {"answer"}

ShapesWithConf == { <<"{", "c", "m", "k", "}">>,
                    <<"{", "c", "k", "}">>,
                    <<"{", "c", "}">>,
                    <<"w", "{", "c", "}", "w">>,
                    <<"{", "c">> }
ShapesWithoutConf == { <<"{", "k", "}">>,
                       <<"{", "m", "}">>,
                       <<"{", "}">>,
                       <<"w">>,
                       <<"}", "w", "{">>,
                       <<"{", "w", "}">>,
                       <<"n">> }
AuditReplies == {[toks |-> s, conf |-> c] : s \in ShapesWithConf, c \in Confidences}
                \cup {[toks |-> s, conf |-> 0] : s \in ShapesWithoutConf}

-----------------------------------------------------------------------------
(* str.strip() *)

IsSpace(c) == c = " "

RECURSIVE LStrip(_)
LStrip(s) == IF s # <<>> /\ IsSpace(Head(s)) THEN LStrip(Tail(s)) ELSE s

RECURSIVE RStrip(_)
RStrip(s) == IF s # <<>> /\ IsSpace(s[Len(s)]) THEN RStrip(SubSeq(s, 1, Len(s) - 1)) ELSE s

StripIdentity(s) == s

Strip(s) == RStrip(LStrip(s))

TooShort(q) == Len(Strip(q)) < MinQuestionLen

-----------------------------------------------------------------------------
(* json.loads on an audit reply, and the audit payloads *)

NoAudit == [kind |-> "absent", has_conf |-> FALSE, conf |-> 0, wrong |-> "absent"]
\* a decoded object carries only the keys its text carries
ObjectAudit(hasConf, c, hasWrong) ==
    [kind |-> "object", has_conf |-> hasConf,
     conf |-> IF hasConf THEN c ELSE 0,
     wrong |-> IF hasWrong THEN "model critique" ELSE "absent"]
ScalarAudit == [kind |-> "scalar", has_conf |-> FALSE, conf |-> 0, wrong |-> "absent"]
FallbackAudit == [kind |-> "object", has_conf |-> TRUE, conf |-> FallbackConfidence,
                  wrong |-> "Unable to parse structured audit"]

IsJsonObject(toks) ==
    /\ Len(toks) >= 2
    /\ toks[1] = "{"
    /\ toks[Len(toks)] = "}"
    /\ \A i \in 2..(Len(toks) - 1) : toks[i] \in {"c", "m", "k"}
IsJsonScalar(toks) == toks = <<"n">>

\* json.loads: [ok |-> FALSE] stands for JSONDecodeError
JsonLoads(toks, c) ==
    IF IsJsonObject(toks)
    THEN [ok |-> TRUE, audit |-> ObjectAudit(\E i \in 2..(Len(toks) - 1) : toks[i] = "c", c,
                                             \E i \in 2..(Len(toks) - 1) : toks[i] = "m")]
    ELSE IF IsJsonScalar(toks)
         THEN [ok |-> TRUE, audit |-> ScalarAudit]
         ELSE [ok |-> FALSE, audit |-> NoAudit]

\* str.find / str.rfind, 0-based, -1 when absent
Find(toks, t) ==
    IF \E i \in 1..Len(toks) : toks[i] = t
    THEN (CHOOSE i \in 1..Len(toks) : toks[i] = t /\ \A j \in 1..(i - 1) : toks[j] # t) - 1
    ELSE -1
RFind(toks, t) ==
    IF \E i \in 1..Len(toks) : toks[i] = t
    THEN (CHOOSE i \in 1..Len(toks) : toks[i] = t /\ \A j \in (i + 1)..Len(toks) : toks[j] # t) - 1
    ELSE -1

-----------------------------------------------------------------------------
(* Adapter return values *)

NoResult == [model |-> "none", success |-> FALSE, answer |-> "absent",
             audit |-> NoAudit, error |-> "absent"]
SuccessResult(m, ans, audit) == [model |-> m, success |-> TRUE, answer |-> ans,
                                 audit |-> audit, error |-> "absent"]
FailResult(m, err) == [model |-> m, success |-> FALSE, answer |-> "absent",
                       audit |-> NoAudit, error |-> err]
NotConfiguredResult(m) == [model |-> m, success |-> FALSE, answer |-> "absent",
                           audit |-> NoAudit, error |-> "API key not configured"]

\* call_openai: json.loads inside the outer try
OpenAIResult(ans, reply) ==
    LET d == JsonLoads(reply.toks, reply.conf) IN
    IF d.ok THEN SuccessResult("GPT-4", ans, d.audit)
    ELSE FailResult("GPT-4", "JSONDecodeError")

\* call_claude: json.loads with the fixed fallback payload
ClaudeResult(ans, reply) ==
    LET d == JsonLoads(reply.toks, reply.conf) IN
    SuccessResult("Claude", ans, IF d.ok THEN d.audit ELSE FallbackAudit)

\* call_gemini: brace-delimited extraction, then the fixed fallback payload
GeminiResult(ans, reply) ==
    LET start == Find(reply.toks, "{")
        end == RFind(reply.toks, "}") + 1
        d == IF start >= 0 /\ end > start
             THEN JsonLoads(SubSeq(reply.toks, start + 1, end), reply.conf)
             ELSE [ok |-> FALSE, audit |-> NoAudit]
    IN SuccessResult("Gemini", ans, IF d.ok THEN d.audit ELSE FallbackAudit)

AdapterResult(p, ans, reply) ==
    IF p = "GPT-4" THEN OpenAIResult(ans, reply)
    ELSE IF p = "Claude" THEN ClaudeResult(ans, reply)
    ELSE GeminiResult(ans, reply)

-----------------------------------------------------------------------------
(* multi_model_audit after the join: consensus over the successful results *)

SuccessfulResultsZeroFill(rs) ==
    [i \in 1..Len(rs) |-> IF rs[i].success THEN rs[i]
                          ELSE [rs[i] EXCEPT !.success = TRUE, !.audit = ObjectAudit(TRUE, 0, FALSE)]]

SuccessfulResults(rs) == SelectSeq(rs, LAMBDA r : r.success)

\* r["audit"]["confidence_percentage"]: TypeError on a non-object audit,
\* KeyError on an object without the key; the first offending result decides
ConfidenceError(succ) ==
    IF \E i \in 1..Len(succ) : succ[i].audit.kind # "object" \/ ~succ[i].audit.has_conf
    THEN LET i == CHOOSE i \in 1..Len(succ) :
                     /\ succ[i].audit.kind # "object" \/ ~succ[i].audit.has_conf
                     /\ \A j \in 1..(i - 1) : succ[j].audit.kind = "object" /\ succ[j].audit.has_conf
         IN IF succ[i].audit.kind # "object" THEN "TypeError" ELSE "KeyError"
    ELSE "none"

ConfidenceList(succ) == [i \in 1..Len(succ) |-> succ[i].audit.conf]

RECURSIVE SumSeq(_)
SumSeq(cs) == IF cs = <<>> THEN 0 ELSE Head(cs) + SumSeq(Tail(cs))

MinSeq(cs) == CHOOSE m \in {cs[i] : i \in 1..Len(cs)} : \A i \in 1..Len(cs) : m <= cs[i]
MaxSeq(cs) == CHOOSE m \in {cs[i] : i \in 1..Len(cs)} : \A i \in 1..Len(cs) : m >= cs[i]

\* round(x, 1) of x = total / n, in tenths (no exact halves arise for n <= 3)
RoundTenths(total, n) == (20 * total + n) \div (2 * n)

AverageOverAllProviders(cs) == RoundTenths(SumSeq(cs), Len(Providers))

AverageConfidence(cs) == RoundTenths(SumSeq(cs), Len(cs))

AgreementLevelInclusive(spread) ==
    IF spread <= HighSpread THEN "HIGH"
    ELSE IF spread <= ModerateSpread THEN "MODERATE" ELSE "LOW"

AgreementLevel(spread) ==
    IF spread < HighSpread THEN "HIGH"
    ELSE IF spread < ModerateSpread THEN "MODERATE" ELSE "LOW"

NoConsensus == [average_confidence |-> 0, min_confidence |-> 0, max_confidence |-> 0,
                confidence_spread |-> 0, agreement_level |-> "absent"]

Consensus(cs) ==
    [average_confidence |-> AverageConfidence(cs),
     min_confidence |-> MinSeq(cs),
     max_confidence |-> MaxSeq(cs),
     confidence_spread |-> MaxSeq(cs) - MinSeq(cs),
     agreement_level |-> AgreementLevel(MaxSeq(cs) - MinSeq(cs))]

ModelNames(rs) == [i \in 1..Len(rs) |-> rs[i].model]

\* the dict returned by multi_model_audit; has_* tell which keys it carries,
\* raised names the exception that left the function instead
NoData == [raised |-> "none", error |-> "absent", has_results |-> FALSE, results |-> <<>>,
           has_consensus |-> FALSE, models_used |-> <<>>, consensus |-> NoConsensus]
NoKeysData == [NoData EXCEPT !.error = "No API keys configured"]
AllFailedData(rs) == [NoData EXCEPT !.error = "All models failed",
                                    !.has_results = TRUE, !.results = rs]
RaisedData(exc) == [NoData EXCEPT !.raised = exc]

Reduce(rs) ==
    LET succ == SuccessfulResults(rs) IN
    IF succ = <<>> THEN AllFailedData(rs)
    ELSE IF ConfidenceError(succ) # "none" THEN RaisedData(ConfidenceError(succ))
    ELSE [raised |-> "none", error |-> "absent",
          has_results |-> TRUE, results |-> succ,
          has_consensus |-> TRUE, models_used |-> ModelNames(succ),
          consensus |-> Consensus(ConfidenceList(succ))]

-----------------------------------------------------------------------------
(* format_multi_model_report: the logical content of the report text *)

NoResponseText == "No response"

ResultAnswer(r) == IF r.answer = "absent" THEN NoResponseText ELSE r.answer
ResultConfidence(r) == IF r.audit.kind = "object" /\ r.audit.has_conf THEN r.audit.conf ELSE 0
ResultConcern(r) == IF r.audit.kind = "object" THEN r.audit.wrong ELSE "absent"

\* max(results, key=confidence): the first result among those of highest confidence
BestResult(rs) ==
    LET i == CHOOSE i \in 1..Len(rs) :
                 /\ \A j \in 1..Len(rs) : ResultConfidence(rs[j]) <= ResultConfidence(rs[i])
                 /\ \A j \in 1..(i - 1) : ResultConfidence(rs[j]) < ResultConfidence(rs[i])
    IN rs[i]

RECURSIVE Concerns(_, _)
Concerns(rs, acc) ==
    IF rs = <<>> THEN acc
    ELSE LET c == ResultConcern(Head(rs)) IN
         Concerns(Tail(rs), IF c # "absent" /\ \A i \in 1..Len(acc) : acc[i] # c
                            THEN Append(acc, c) ELSE acc)

ConsensusBanner(avg) ==
    IF avg >= HighAverage * 10 THEN "HIGH CONSENSUS"
    ELSE IF avg >= ModerateAverage * 10 THEN "MODERATE CONSENSUS" ELSE "LOW CONSENSUS"

Recommendation(avg, agreement) ==
    IF avg < ModerateAverage * 10 \/ agreement = "LOW" THEN "LOW CONFIDENCE / POOR AGREEMENT"
    ELSE IF avg < CautionAverage * 10 THEN "MODERATE CONFIDENCE" ELSE "HIGH CONFIDENCE"

NoReport == [question |-> <<>>, models_analyzed |-> <<>>, responses |-> <<>>,
             average_confidence |-> 0, min_confidence |-> 0, max_confidence |-> 0,
             confidence_spread |-> 0, agreement_level |-> "absent", banner |-> "absent",
             major_disagreement |-> FALSE, scores |-> <<>>, concerns |-> <<>>,
             best_model |-> "absent", recommendation |-> "absent"]

\* d.get(key, default) supplies 0 / "UNKNOWN" / [] when the key is missing
FormatMultiModelReport(q, d) ==
    LET rs == IF d.has_results THEN d.results ELSE <<>>
        avg == IF d.has_consensus THEN d.consensus.average_confidence ELSE 0
        spread == IF d.has_consensus THEN d.consensus.confidence_spread ELSE 0
        agreement == IF d.has_consensus THEN d.consensus.agreement_level ELSE "UNKNOWN"
    IN [question |-> q,
        models_analyzed |-> d.models_used,
        responses |-> [i \in 1..Len(rs) |-> [model |-> rs[i].model, answer |-> ResultAnswer(rs[i])]],
        average_confidence |-> avg,
        min_confidence |-> IF d.has_consensus THEN d.consensus.min_confidence ELSE 0,
        max_confidence |-> IF d.has_consensus THEN d.consensus.max_confidence ELSE 0,
        confidence_spread |-> spread,
        agreement_level |-> agreement,
        banner |-> ConsensusBanner(avg),
        major_disagreement |-> spread > MajorSpread,
        scores |-> [i \in 1..Len(rs) |-> [model |-> rs[i].model, conf |-> ResultConfidence(rs[i])]],
        concerns |-> SubSeq(Concerns(rs, <<>>), 1, IF Len(Concerns(rs, <<>>)) < 3
                                                    THEN Len(Concerns(rs, <<>>)) ELSE 3),
        best_model |-> BestResult(rs).model,
        recommendation |-> Recommendation(avg, agreement)]

-----------------------------------------------------------------------------
(* audit_question: what the handler returns *)

NoResponse == [kind |-> "pending", text |-> "absent", report |-> NoReport]
TooShortResponse == [kind |-> "error", text |-> "Question too short", report |-> NoReport]
ErrorResponse(msg) == [kind |-> "error", text |-> msg, report |-> NoReport]
SystemErrorResponse(exc) == [kind |-> "system_error", text |-> exc, report |-> NoReport]
ReportResponse(rep) == [kind |-> "report", text |-> "absent", report |-> rep]

\* lines 505-515, given what multi_model_audit returned or raised
Respond(q, d) ==
    IF d.raised # "none" THEN SystemErrorResponse(d.raised)
    ELSE IF d.error # "absent" /\ ~d.has_results THEN ErrorResponse(d.error)
    ELSE IF ~d.has_results \/ d.results = <<>> THEN SystemErrorResponse("ValueError")
    ELSE ReportResponse(FormatMultiModelReport(q, d))

-----------------------------------------------------------------------------
(* The request *)

Init ==
    /\ config \in SUBSET ProviderSet
    /\ question \in Questions
    /\ hpc = "start"
    /\ tasks = <<>>
    /\ apc = [p \in ProviderSet |-> "idle"]
    /\ answer = [p \in ProviderSet |-> "absent"]
    /\ results = [p \in ProviderSet |-> NoResult]
    /\ joined = <<>>
    /\ data = NoData
    /\ response = NoResponse
    /\ calls = <<>>

BuildTasksAll(cfg) == Providers

\* tasks.append(...) for each configured provider, in the fixed order
BuildTasks(cfg) == SelectSeq(Providers, LAMBDA p : p \in cfg)

InTasks(p) == \E i \in 1..Len(tasks) : tasks[i] = p

\* audit_question up to its first suspension: validation, then multi_model_audit
\* up to `await asyncio.gather(*tasks)` or its early return
HandleRequest ==
    /\ hpc = "start"
    /\ IF TooShort(question)
       THEN /\ response' = TooShortResponse
            /\ hpc' = "done"
            /\ UNCHANGED <<tasks, apc, data>>
       ELSE LET t == BuildTasks(config) IN
            /\ tasks' = t
            /\ apc' = [p \in ProviderSet |->
                          IF \E i \in 1..Len(t) : t[i] = p THEN "ready" ELSE "idle"]
            /\ IF t = <<>>
               THEN /\ data' = NoKeysData
                    /\ response' = Respond(question, NoKeysData)
                    /\ hpc' = "done"
               ELSE /\ hpc' = "gather"
                    /\ UNCHANGED <<data, response>>
    /\ UNCHANGED <<config, question, answer, results, joined, calls>>

\* The adapters contain no await: once the event loop starts an adapter task it
\* runs to its return before the loop can start the next one, and the loop
\* starts tasks in creation order.
TaskIndex(p) == CHOOSE i \in 1..Len(tasks) : tasks[i] = p
IsNext(p) ==
    /\ InTasks(p)
    /\ apc[p] = "ready"
    /\ \A i \in 1..(TaskIndex(p) - 1) : apc[tasks[i]] = "done"

\* adapter entry: the configuration check, then the answer call is issued
StartAdapter(p) ==
    /\ hpc = "gather"
    /\ IsNext(p)
    /\ IF p \notin config
       THEN /\ results' = [results EXCEPT ![p] = NotConfiguredResult(p)]
            /\ apc' = [apc EXCEPT ![p] = "done"]
            /\ UNCHANGED calls
       ELSE /\ calls' = Append(calls, [provider |-> p, kind |-> "answer"])
            /\ apc' = [apc EXCEPT ![p] = "answer_call"]
            /\ UNCHANGED results
    /\ UNCHANGED <<config, question, hpc, tasks, answer, joined, data, response>>

\* the answer call returns; the audit call is issued
AnswerReturns(p, text) ==
    /\ apc[p] = "answer_call"
    /\ answer' = [answer EXCEPT ![p] = text]
    /\ calls' = Append(calls, [provider |-> p, kind |-> "audit"])
    /\ apc' = [apc EXCEPT ![p] = "audit_call"]
    /\ UNCHANGED <<config, question, hpc, tasks, results, joined, data, response>>

AnswerFailsThenAudits(p) ==
    /\ apc[p] = "answer_call"
    /\ calls' = Append(calls, [provider |-> p, kind |-> "audit"])
    /\ apc' = [apc EXCEPT ![p] = "audit_call"]
    /\ UNCHANGED <<config, question, hpc, tasks, answer, results, joined, data, response>>

\* the answer call raises; the adapter's except clause returns a failure entry
AnswerFails(p) ==
    /\ apc[p] = "answer_call"
    /\ results' = [results EXCEPT ![p] = FailResult(p, "answer call failed")]
    /\ apc' = [apc EXCEPT ![p] = "done"]
    /\ UNCHANGED <<config, question, hpc, tasks, answer, joined, data, response, calls>>

\* the audit call returns; the reply is decoded and the adapter returns
AuditReturns(p, reply) ==
    /\ apc[p] = "audit_call"
    /\ results' = [results EXCEPT ![p] = AdapterResult(p, answer[p], reply)]
    /\ apc' = [apc EXCEPT ![p] = "done"]
    /\ UNCHANGED <<config, question, hpc, tasks, answer, joined, data, response, calls>>

\* the audit call raises
AuditFails(p) ==
    /\ apc[p] = "audit_call"
    /\ results' = [results EXCEPT ![p] = FailResult(p, "audit call failed")]
    /\ apc' = [apc EXCEPT ![p] = "done"]
    /\ UNCHANGED <<config, question, hpc, tasks, answer, joined, data, response, calls>>

AnyTaskDone == \E i \in 1..Len(tasks) : apc[tasks[i]] = "done"

\* asyncio.gather resolves when every task has returned
AllTasksDone == \A i \in 1..Len(tasks) : apc[tasks[i]] = "done"

\* gather returns the results in task order; multi_model_audit computes the
\* consensus and audit_question renders and returns
GatherJoin ==
    /\ hpc = "gather"
    /\ AllTasksDone
    /\ LET rs == [i \in 1..Len(tasks) |-> results[tasks[i]]] IN
       /\ joined' = rs
       /\ data' = Reduce(rs)
       /\ response' = Respond(question, Reduce(rs))
    /\ hpc' = "done"
    /\ UNCHANGED <<config, question, tasks, apc, answer, results, calls>>

Next ==
    \/ HandleRequest
    \/ \E p \in ProviderSet : StartAdapter(p)
    \/ \E p \in ProviderSet, text \in AnswerTexts : AnswerReturns(p, text)
    \/ \E p \in ProviderSet : AnswerFails(p)
    \/ \E p \in ProviderSet, reply \in AuditReplies : AuditReturns(p, reply)
    \/ \E p \in ProviderSet : AuditFails(p)
    \/ GatherJoin

Spec == Init /\ [][Next]_vars

-----------------------------------------------------------------------------
(* The consensus computation on the full confidence range: the request is    *)
(* taken at the join, all three providers configured and every adapter      *)
(* returned, GPT-4 with any confidence in 0..MaxConfidence.                  *)

ValidQuestion == Body(MinQuestionLen)

ReturnedResults(p) ==
    {FailResult(p, "audit call failed")}
    \cup {SuccessResult(p, "answer", ObjectAudit(TRUE, c, TRUE)) :
             c \in IF p = "GPT-4" THEN 0..MaxConfidence ELSE Levels(CoarseLevels)}

InitConsensus ==
    /\ config = ProviderSet
    /\ question = ValidQuestion
    /\ hpc = "gather"
    /\ tasks = Providers
    /\ apc = [p \in ProviderSet |-> "done"]
    /\ answer = [p \in ProviderSet |-> "answer"]
    /\ \E g \in ReturnedResults("GPT-4"), c \in ReturnedResults("Claude"),
          m \in ReturnedResults("Gemini") :
           results = [p \in ProviderSet |->
                         IF p = "GPT-4" THEN g ELSE IF p = "Claude" THEN c ELSE m]
    /\ joined = <<>>
    /\ data = NoData
    /\ response = NoResponse
    /\ calls = [i \in 1..(2 * Len(Providers)) |->
                   [provider |-> Providers[(i + 1) \div 2],
                    kind |-> IF i % 2 = 1 THEN "answer" ELSE "audit"]]

NextConsensus == GatherJoin

SpecConsensus == InitConsensus /\ [][NextConsensus]_vars

-----------------------------------------------------------------------------
(* Properties *)

\* questions whose text between the outer blanks has fewer than MinQuestionLen characters
ShortQuestions ==
    {Blanks(l) \o Body(n) \o Blanks(r) :
        l \in 0..MaxPad, r \in 0..MaxPad, n \in 0..(MinQuestionLen - 1)}

ConfiguredInOrder == SelectSeq(Providers, LAMBDA p : p \in config)
Succeeded == {p \in config : results[p].success}
Failed == {p \in config : ~results[p].success}
Usable == {p \in config : results[p].success /\ results[p].audit.kind = "object"
                                             /\ results[p].audit.has_conf}
Joined == hpc = "done" /\ joined # <<>>

RECURSIVE SumConf(_)
SumConf(S) == IF S = {} THEN 0
              ELSE LET p == CHOOSE p \in S : TRUE IN results[p].audit.conf + SumConf(S \ {p})

Named(rep, p) == \E i \in 1..Len(rep.responses) : rep.responses[i].model = p
ShownFailed(rep, p) ==
    /\ \E i \in 1..Len(rep.responses) :
           rep.responses[i].model = p /\ rep.responses[i].answer = NoResponseText
    /\ \A i \in 1..Len(rep.models_analyzed) : rep.models_analyzed[i] # p

\* C1: when at least one provider is configured and every configured provider
\* ended with success = false, the handler returns an explicit total-failure
\* error and no report (hence no consensus figure of 0 and no per-provider
\* confidence) is rendered.
C1_TotalFailureIsError ==
    (Joined /\ config # {} /\ Succeeded = {})
        => (response.kind = "error" /\ response.report = NoReport)

\* C2: whenever at least one configured provider ended with success = true and
\* a confidence, the handler returns a rendered report; a request-level error
\* is returned only when no provider produced a usable result.
C2_ProviderErrorNeverAborts ==
    Joined =>
        /\ (Usable # {} => response.kind = "report")
        /\ (response.kind \in {"error", "system_error"} => Usable = {})

\* C3: a question shorter than 5 characters after trimming gets the
\* question-too-short error, and in that request no adapter is started and no
\* remote call is issued, whatever providers are configured.
C3_TooShortContactsNoProvider ==
    question \in ShortQuestions =>
        /\ calls = <<>>
        /\ tasks = <<>>
        /\ \A p \in ProviderSet : apc[p] = "idle" /\ results[p] = NoResult
        /\ hpc \in {"start", "done"}
        /\ (hpc = "done" => response = TooShortResponse)

C3_Witness ==
    /\ hpc = "done"
    /\ question \in ShortQuestions
    /\ Len(question) >= MinQuestionLen
    /\ config = ProviderSet
    /\ response = TooShortResponse

\* C4: with no provider configured every valid-length request fails with the
\* no-providers-configured error: no adapter is started, no remote call is
\* issued, and no report is rendered.
C4_NoProvidersConfigured ==
    (config = {} /\ question \notin ShortQuestions) =>
        /\ calls = <<>>
        /\ \A p \in ProviderSet : apc[p] = "idle" /\ results[p] = NoResult
        /\ hpc \in {"start", "done"}
        /\ (hpc = "done" => /\ response.kind = "error"
                            /\ response.text = "No API keys configured"
                            /\ response.report = NoReport)

C4_Witness ==
    /\ hpc = "done"
    /\ config = {}
    /\ question \notin ShortQuestions
    /\ response.text = "No API keys configured"

\* C5: the consensus is computed over exactly the confidences of the providers
\* that ended with success = true (a failed provider contributes no value); when
\* exactly one of three configured providers succeeds with confidence c the
\* summary is average = min = max = c, spread 0, tier HIGH, and models_used
\* lists only that provider.
C5_ConsensusOverSuccessesOnly ==
    (hpc = "done" /\ data.has_consensus) =>
        LET n == Cardinality(Succeeded)
            c == data.consensus
        IN /\ n > 0
           /\ data.models_used = SelectSeq(Providers, LAMBDA p : p \in Succeeded)
           /\ \E p \in Succeeded : c.min_confidence = results[p].audit.conf
           /\ \A p \in Succeeded : c.min_confidence <= results[p].audit.conf
           /\ \E p \in Succeeded : c.max_confidence = results[p].audit.conf
           /\ \A p \in Succeeded : c.max_confidence >= results[p].audit.conf
           /\ 2 * (n * c.average_confidence - 10 * SumConf(Succeeded)) <= n
           /\ 2 * (10 * SumConf(Succeeded) - n * c.average_confidence) <= n
           /\ (Cardinality(config) = 3 /\ n = 1) =>
                  \A p \in Succeeded :
                      /\ c.average_confidence = 10 * results[p].audit.conf
                      /\ c.min_confidence = results[p].audit.conf
                      /\ c.max_confidence = results[p].audit.conf
                      /\ c.confidence_spread = 0
                      /\ c.agreement_level = "HIGH"
                      /\ data.models_used = <<p>>

C5_Witness ==
    /\ hpc = "done"
    /\ data.has_consensus
    /\ Cardinality(config) = 3
    /\ Cardinality(Succeeded) = 1
    /\ Cardinality(Failed) = 2
    /\ data.consensus.min_confidence > 0
    /\ data.consensus.agreement_level = "HIGH"

\* C6: for every non-empty list of successful providers with integer
\* confidences in 0..100, min <= average <= max, spread = max - min exactly,
\* and the average is the arithmetic mean rounded to one decimal.
C6_ConsensusBounds ==
    (hpc = "done" /\ data.has_consensus) =>
        LET n == Cardinality(Succeeded)
            c == data.consensus
        IN /\ 10 * c.min_confidence <= c.average_confidence
           /\ c.average_confidence <= 10 * c.max_confidence
           /\ c.confidence_spread = c.max_confidence - c.min_confidence
           /\ 2 * (n * c.average_confidence - 10 * SumConf(Succeeded)) <= n
           /\ 2 * (10 * SumConf(Succeeded) - n * c.average_confidence) <= n

C6_Witness ==
    /\ hpc = "done"
    /\ data.has_consensus
    /\ Cardinality(Succeeded) = 3
    /\ data.consensus.min_confidence < data.consensus.max_confidence
    /\ data.consensus.average_confidence % 5 # 0

\* C7: the agreement tier is decided by the spread alone: HIGH exactly when
\* spread < 20, MODERATE exactly when 20 <= spread < 40, LOW exactly when
\* spread >= 40.
C7_TierBySpread ==
    (hpc = "done" /\ data.has_consensus) =>
        LET s == data.consensus.max_confidence - data.consensus.min_confidence
            t == data.consensus.agreement_level
        IN /\ t \in {"HIGH", "MODERATE", "LOW"}
           /\ (t = "HIGH" <=> s < 20)
           /\ (t = "MODERATE" <=> (20 <= s /\ s < 40))
           /\ (t = "LOW" <=> s >= 40)

C7_Witness ==
    /\ hpc = "done"
    /\ data.has_consensus
    /\ Cardinality(Succeeded) = 3
    /\ data.consensus.confidence_spread = 20
    /\ data.consensus.agreement_level = "MODERATE"

\* C8: the join completes only after every configured adapter has finished, no
\* adapter is skipped, the joined list holds exactly one result per configured
\* adapter in the order GPT-4, Claude, Gemini, and no consensus exists before
\* the join.
C8_JoinWaitsForAll ==
    /\ [](hpc # "done" => (joined = <<>> /\ data = NoData))
    /\ [][(hpc = "gather" /\ hpc' = "done") =>
            /\ \A p \in config : apc[p] = "done" /\ results[p].model = p
            /\ \A p \in config : \E i \in 1..Len(calls) :
                   calls[i] = [provider |-> p, kind |-> "answer"]
            /\ Len(joined') = Cardinality(config)
            /\ \A i \in 1..Len(joined') : joined'[i] = results[ConfiguredInOrder[i]]
            /\ data = NoData]_vars

C8_Witness ==
    /\ hpc = "done"
    /\ Len(joined) = 3
    /\ ~joined[1].success
    /\ joined[2].success
    /\ ~joined[3].success
    /\ joined[3].error = "answer call failed"

\* C9: an adapter waiting on one of its remote calls does not block the other
\* adapters: while one adapter is inside a remote call, an adapter that has
\* not started yet can be started and issue its answer call.
C9_RemoteCallsDoNotBlock ==
    \A p \in ProviderSet, q \in ProviderSet :
        (apc[p] \in {"answer_call", "audit_call"} /\ apc[q] = "ready")
            => ENABLED StartAdapter(q)

\* C10: under partial failure the rendered report names every configured
\* provider that failed and marks it as failed, distinctly from the providers
\* that succeeded.
C10_FailedProvidersShown ==
    (hpc = "done" /\ response.kind = "report" /\ Succeeded # {} /\ Failed # {}) =>
        \A p \in Failed : ShownFailed(response.report, p)

\* an audit reply on which json.loads raises
Undecodable(reply) == ~IsJsonObject(reply.toks) /\ reply.toks # <<"n">>

\* C11: in each of the three adapters an audit reply that cannot be decoded
\* is met by a fallback and never by a failure: the step in which such a reply
\* arrives ends the adapter with success = true and an audit payload.
C11_UndecodableReplyFallsBack ==
    [][\A p \in ProviderSet :
          (\E reply \in AuditReplies : Undecodable(reply) /\ AuditReturns(p, reply))
              => (results'[p].success /\ results'[p].audit.kind = "object")]_vars

CallsOf(p, k) == {i \in 1..Len(calls) : calls[i] = [provider |-> p, kind |-> k]}

\* C12: each adapter issues its remote calls in the order answer then audit,
\* each at most once; the audit call is issued only after the adapter's own
\* answer call has returned, and an adapter whose answer call failed ends with
\* success = false without an audit call.
C12_AnswerThenAuditOnce ==
    \A p \in ProviderSet :
        /\ Cardinality(CallsOf(p, "answer")) <= 1
        /\ Cardinality(CallsOf(p, "audit")) <= 1
        /\ (CallsOf(p, "answer") \cup CallsOf(p, "audit") # {} => p \in config)
        /\ \A j \in CallsOf(p, "audit") :
               /\ \E i \in CallsOf(p, "answer") : i < j
               /\ answer[p] # "absent"
        /\ (apc[p] = "audit_call" => CallsOf(p, "audit") # {})
        /\ (apc[p] = "answer_call" => CallsOf(p, "audit") = {})
        /\ ((apc[p] = "done" /\ answer[p] = "absent") =>
               (CallsOf(p, "audit") = {} /\ ~results[p].success))

C12_Witness ==
    /\ hpc = "done"
    /\ config = ProviderSet
    /\ answer["GPT-4"] = "absent"
    /\ CallsOf("GPT-4", "answer") = {1}
    /\ CallsOf("GPT-4", "audit") = {}
    /\ ~results["GPT-4"].success
    /\ CallsOf("Claude", "answer") = {2}
    /\ CallsOf("Claude", "audit") = {3}
    /\ results["Claude"].success
    /\ Len(calls) = 5

====
